---- MODULE Spec2Model ----
(***************************************************************************)
(* The waiting-pool matcher and the session lifecycle of the backend: the   *)
(* matching routes (POST /join, /leave, /cancel) and the session route     *)
(* PATCH /:id/end, over the WaitingPool and Session collections.           *)
(*                                                                         *)
(* Every handler is an async function: between two awaits it runs alone,   *)
(* and at each await other requests may run.  A request in flight is a     *)
(* record in req[slot]; each action below is the code between two awaits.  *)
(*                                                                         *)
(* The socket layer (socket/socketHandler.js) is the second part: the      *)
(* registry of connections, the rooms of the socket.io server, and the     *)
(* events each connection has been sent.                                   *)
(***************************************************************************)
EXTENDS Integers, FiniteSets, Sequences, TLC

\* ------------------------------------------------------------------ bounds
NumUsers == 3
NumTopics == 2
MaxInFlight == 2
MaxReqs == 4
MaxFaults == 1
MaxSockets == 3
MaxSockOps == 5
MaxPoolReqs == 2
MaxPoolSockOps == 3
MaxRoomReqs == 2
MaxRoomSockOps == 4
MaxFeedbackReqs == 3
MaxClientSockets == 6
NumAuthUsers == 4
NumUsernames == 4
NumAuthErrors == 2

Users == 1..NumUsers
Topics == 1..NumTopics
Slots == 1..MaxInFlight

\* A topic id that passes isMongoId but names no document of the catalog.
UnknownTopic == 0
\* A session id that names no document.
UnknownSession == 0
\* endTime has no default: unset until the session is ended or cancelled.
NoTime == 0

TopicInputs == Topics \cup {UnknownTopic}

\* A topic of the catalog whose isActive is false, and the topic ids of
\* the joins.
InactiveTopic == NumTopics + 1
JoinTopicInputs == TopicInputs \cup {InactiveTopic}

VARIABLES
    pool,               \* the WaitingPool collection
    sessions,           \* the Session collection, in order of creation
    sessionsCompleted,  \* User.sessionsCompleted
    sessionsCount,      \* Topic.sessionsCount
    clock,              \* Date.now(), in ticks
    req,                \* the requests in flight and the last responses
    issued,             \* requests received so far
    faults,             \* database writes that have rejected so far
    matchedFrom,        \* matchedFrom[i]: the _id of the waiting entry that
                        \* session i was created from (not stored by the code)
    socks,              \* the sockets accepted so far; socket.id is the index
    activeConnections,  \* the Map activeConnections: userId -> socketId
    rooms,              \* the rooms of the server: pairs <<socket.id, room>>
    inbox,              \* inbox[h]: the events sent to socket h, in order
    sockOps,            \* socket events received so far
    service,            \* the browser's SocketService and its sockets
    auth,               \* the browser's AuthState
    lastAction          \* the type of the action dispatched last

\* The state of the socket layer.
sockVars == <<socks, activeConnections, rooms, inbox, sockOps>>

\* The state of the browser.
clientVars == <<service, auth, lastAction>>

\* The state of the server.
serverVars == <<pool, sessions, sessionsCompleted, sessionsCount, clock, req, issued,
                faults, matchedFrom, socks, activeConnections, rooms, inbox, sockOps>>

vars == <<pool, sessions, sessionsCompleted, sessionsCount, clock, req, issued,
          faults, matchedFrom, socks, activeConnections, rooms, inbox, sockOps,
          service, auth, lastAction>>

\* ------------------------------------------------------------- documents
\* No socket: the value of a Map lookup that finds no entry.
NoSocket == 0

\* The socketId of an entry whose join request carried none:
\* 'temp-' + Date.now(), the id of no socket.
TempSocket == -1

\* A WaitingPool document (models/WaitingPool.js).
WaitingEntry(i, u, t, at, sk) ==
    [id |-> i, user |-> u, topic |-> t, joinedAt |-> at, isActive |-> TRUE,
     socketId |-> sk]

\* What findOne returns when no document satisfies the query (null).
NoEntry ==
    [id |-> 0, user |-> 0, topic |-> 0, joinedAt |-> 0, isActive |-> FALSE,
     socketId |-> NoSocket]

\* A Session document (models/Session.js) as the join handler creates it.
\* The feedback of a session before any is given: the four paths of the
\* schema are unset.
NoRating == 0
NoComment == 0
NoFeedback ==
    [user1Rating |-> NoRating, user1Comment |-> NoComment,
     user2Rating |-> NoRating, user2Comment |-> NoComment]

\* A session constructed without its status, which then is the default of
\* the schema.
NewSessionDefaultStatus(t, u1, u2) ==
    [topic |-> t, user1 |-> u1, user2 |-> u2, status |-> "waiting", endTime |-> NoTime,
     feedback |-> NoFeedback]

NewSession(t, u1, u2) ==
    [topic |-> t, user1 |-> u1, user2 |-> u2, status |-> "active", endTime |-> NoTime,
     feedback |-> NoFeedback]

SessionIds == 1..Len(sessions)

IsParticipant(sid, u) == sessions[sid].user1 = u \/ sessions[sid].user2 = u

IsTerminal(st) == st = "completed" \/ st = "cancelled"

\* Topic.findById(topicId) and the test !topic || !topic.isActive.
\* Topic.findById(topicId) returns a document; its isActive.
TopicExists(t) == t \in Topics \cup {InactiveTopic}
TopicIsActive(t) == t \in Topics

\* The test without !topic.isActive.
TopicValidNoActiveTest(t) == TopicExists(t)

\* The negation of (!topic || !topic.isActive).
TopicValid(t) == TopicExists(t) /\ TopicIsActive(t)

\* -------------------------------------------------------------- sockets
\* socket.id of the sockets accepted so far.
Handles == 1..Len(socks)

\* session.roomId: a uuid made when the session is created, unique per
\* session.  The room of session sid is named sid.
RoomOf(sid) == sid

\* A roomId that is the roomId of no session.
UnknownRoom == 0

\* `user_${userId}`: the personal room a socket joins on connection.
UserRoom(u) == 0 - u

\* The data of a joinSession event whose handler awaits Session.findById;
\* NoJoin when the socket has none.
NoJoin == [sessionId |-> -1, roomId |-> -1]

\* A socket: its authenticated user (socket.userId), whether it is
\* connected, the joinSession it is handling, and the place of its
\* disconnect handler.  left is not state of the code: it keeps, from the
\* moment the socket closed, the rooms it was in with the other connected
\* sockets of each, as pairs <<room, socket>>; nor is waiting: it keeps, from
\* that moment, the ids of the entries its user had in the waiting pool, and
\* wasIn the rooms the socket was in.
NewSocket(u) ==
    [user |-> u, connected |-> TRUE, join |-> NoJoin, dpc |-> "none", left |-> {},
     waiting |-> {}, wasIn |-> {}]

\* An event as a socket receives it: its name, the identity its data names
\* (from, userId, endedBy, cancelledBy), its payload, its message.  room
\* and sock are not part of the data: the room it was emitted to and the
\* socket whose handler emitted it (NoSocket for the http handlers).
Event(k, u, r, n, h) ==
    [kind |-> k, from |-> u, payload |-> n, message |-> "", room |-> r, sock |-> h]

\* socket.emit('error', {message}).
ErrorEvent(msg, h) ==
    [kind |-> "error", from |-> 0, payload |-> 0, message |-> msg,
     room |-> UnknownRoom, sock |-> h]

\* The sockets of room r, as the adapter holds them.
InRoom(r) == {h \in Handles : <<h, r>> \in rooms}

\* io.to(socketId): every socket is in the room named by its own id.
IoToSocket(id) == {h \in Handles : h = id /\ socks[h].connected}

\* io.to(r): the connected sockets of room r.
IoTo(r) == {h \in InRoom(r) : socks[h].connected}

\* io.to(r) in the place of socket.to(r): the sender is not left out.
SocketToEcho(h, r) == IoTo(r)

\* socket.to(r): the connected sockets of room r except socket h itself.
SocketTo(h, r) == IoTo(r) \ {h}

\* socket.emit: socket h itself; a packet for a closed socket is discarded.
SocketSelf(h) == IF socks[h].connected THEN {h} ELSE {}

\* The inboxes box after event ev was sent to the sockets of targets.
Deliver(box, targets, ev) ==
    [h \in DOMAIN box |-> IF h \in targets THEN Append(box[h], ev) ELSE box[h]]

\* ------------------------------------------------------------- requests
\* A request: its handler's place (pc), its inputs (user, topic, sid,
\* socketId, rating, comment), its locals (waitingUser, endTime, and both:
\* whether the handler's copy of the session has the two ratings) and its
\* response (result, and removedCount for a leave).  pre is not a variable of the code: it
\* keeps the collections as they were when the request arrived, for the
\* properties that compare before and after.
NoSnapshot == [pool |-> {}, sessions |-> <<>>]

IdleReq ==
    [kind |-> "none", pc |-> "idle", user |-> 0, topic |-> 0, sid |-> 0,
     socketId |-> NoSocket, waitingUser |-> NoEntry, endTime |-> NoTime,
     rating |-> NoRating, comment |-> NoComment, both |-> FALSE,
     result |-> "none", removedCount |-> 0, pre |-> NoSnapshot]

InFlight(s) == req[s].pc \notin {"idle", "done"}

\* A new request takes the first slot that holds none in flight.
CanBegin(s) ==
    /\ ~InFlight(s)
    /\ \A s2 \in Slots : s2 < s => InFlight(s2)
    /\ issued < MaxReqs

\* Which awaited database writes may reject in this step.
Outcomes == IF faults < MaxFaults THEN {"ok", "fail"} ELSE {"ok"}

\* The socket layer of a server that has accepted no connection yet.
InitSockets ==
    /\ socks = <<>>
    /\ activeConnections = [u \in Users |-> NoSocket]
    /\ rooms = {}
    /\ inbox = <<>>
    /\ sockOps = 0

Finish(s, res) == [req EXCEPT ![s] = [IdleReq EXCEPT !.pc = "done", !.result = res]]

\* ------------------------------------------------- client: SocketService
\* private maxReconnectAttempts = 5
maxReconnectAttempts == 5

\* this.socket when it is null.
NullSocket == 0

\* The service as constructed: socket = null, reconnectAttempts = 0.  Beside
\* its two fields: the sockets that io() has created (sockets[k] is where
\* socket k stands), the callbacks of setTimeout that have not run yet
\* (timers), the token cookie, how the last call of connect() went on
\* (result), the reconnects scheduled since the last 'connect' event
\* (sinceConnect), and whether handleReconnect has given up (gaveUp).
NewService ==
    [socket |-> NullSocket, reconnectAttempts |-> 0, sockets |-> <<>>, timers |-> 0,
     token |-> FALSE, result |-> "none", sinceConnect |-> 0, gaveUp |-> FALSE]

ClientSockets == 1..Len(service.sockets)

\* handleReconnect without its test of reconnectAttempts.
handleReconnectUnbounded(sv) ==
    [sv EXCEPT !.reconnectAttempts = @ + 1, !.timers = @ + 1, !.sinceConnect = @ + 1]

\* handleReconnect(): below the maximum it counts the attempt and sets the
\* timer; at the maximum it logs 'Max reconnection attempts reached'.
handleReconnect(sv) ==
    IF sv.reconnectAttempts < maxReconnectAttempts
    THEN [sv EXCEPT !.reconnectAttempts = @ + 1, !.timers = @ + 1,
                    !.sinceConnect = @ + 1]
    ELSE [sv EXCEPT !.gaveUp = TRUE]

\* Cookies.set('token', ...) of login and register, Cookies.remove('token')
\* of logout and checkAuthStatus.
CookieSet ==
    /\ ~service.token
    /\ service' = [service EXCEPT !.token = TRUE]
    /\ UNCHANGED <<serverVars, auth, lastAction>>

CookieRemove ==
    /\ service.token
    /\ service' = [service EXCEPT !.token = FALSE]
    /\ UNCHANGED <<serverVars, auth, lastAction>>

\* connect(): without a token the promise is rejected; with one, io()
\* creates a socket that starts to connect, this.socket refers to it, and
\* the handlers are registered on it.  The sockets created before keep
\* theirs.
ServiceConnect ==
    /\ Len(service.sockets) < MaxClientSockets
    /\ service' = IF ~service.token
                  THEN [service EXCEPT !.result = "rejected"]
                  ELSE [service EXCEPT !.sockets = Append(@, "connecting"),
                                       !.socket = Len(service.sockets) + 1,
                                       !.result = "pending"]
    /\ UNCHANGED <<serverVars, auth, lastAction>>

\* socket.on('connect'): this.reconnectAttempts = 0; resolve(this.socket).
OnConnect(k) ==
    /\ service.sockets[k] = "connecting"
    /\ service' = [service EXCEPT !.sockets[k] = "connected",
                                  !.reconnectAttempts = 0,
                                  !.sinceConnect = 0,
                                  !.result = IF k = Len(service.sockets)
                                                /\ @ = "pending"
                                             THEN "resolved" ELSE @]
    /\ UNCHANGED <<serverVars, auth, lastAction>>

\* socket.on('connect_error'): reject(error), which settles the promise
\* of the call that created the socket unless it is settled already.  The
\* socket goes on trying to connect.
OnConnectError(k) ==
    /\ service.sockets[k] = "connecting"
    /\ k = Len(service.sockets)
    /\ service.result = "pending"
    /\ service' = [service EXCEPT !.result = "rejected"]
    /\ UNCHANGED <<serverVars, auth, lastAction>>

\* The reasons of a 'disconnect' event that the client did not ask for.
DisconnectReasons == {"io server disconnect", "transport close", "ping timeout"}

\* socket.on('disconnect'): handleReconnect() when the reason is
\* 'io server disconnect'.  After that reason the socket stays
\* disconnected until connect() is called on it; after the others it
\* starts to connect again by itself.
OnDisconnect(k, reason) ==
    /\ service.sockets[k] = "connected"
    /\ service' = IF reason = "io server disconnect"
                  THEN handleReconnect([service EXCEPT !.sockets[k] = "disconnected"])
                  ELSE [service EXCEPT !.sockets[k] = "connecting"]
    /\ UNCHANGED <<serverVars, auth, lastAction>>

\* The callback of setTimeout: if (this.socket) this.socket.connect(),
\* which opens a socket that is disconnected and leaves any other alone.
ReconnectTimer ==
    /\ service.timers > 0
    /\ service' =
         [service EXCEPT
            !.timers = @ - 1,
            !.sockets = IF service.socket # NullSocket
                           /\ service.sockets[service.socket] \in {"disconnected", "closed"}
                        THEN [@ EXCEPT ![service.socket] = "connecting"]
                        ELSE @]
    /\ UNCHANGED <<serverVars, auth, lastAction>>

\* disconnect(): this.socket.disconnect(); this.socket = null.  The
\* 'disconnect' event of a socket the client closes has the reason
\* 'io client disconnect'.
ServiceDisconnect ==
    /\ service.socket # NullSocket
    /\ service' = [service EXCEPT !.sockets[service.socket] = "closed",
                                  !.socket = NullSocket]
    /\ UNCHANGED <<serverVars, auth, lastAction>>

NextService ==
    \/ CookieSet
    \/ CookieRemove
    \/ ServiceConnect
    \/ \E k \in ClientSockets : OnConnect(k)
    \/ \E k \in ClientSockets : OnConnectError(k)
    \/ \E k \in ClientSockets, reason \in DisconnectReasons : OnDisconnect(k, reason)
    \/ ReconnectTimer
    \/ ServiceDisconnect

\* ---------------------------------------------------- client: AuthContext
\* user: null (no _id, no profile), error: null
NoUser == [id |-> 0, username |-> 0]
NoError == 0

\* The users an action can carry: an _id and, for the rest of the profile,
\* a username.
AuthUsers == [id : 1..NumAuthUsers, username : 1..NumUsernames]

\* A field that a Partial<User> leaves out.
Unset == 0

\* The payloads of UPDATE_USER.
PartialUsers == [id : {Unset} \cup (1..NumAuthUsers),
                 username : {Unset} \cup (1..NumUsernames)]

\* { ...state.user, ...action.payload }
Merge(user, partial) ==
    [id |-> IF partial.id = Unset THEN user.id ELSE partial.id,
     username |-> IF partial.username = Unset THEN user.username
                  ELSE partial.username]

\* The messages of AUTH_FAILURE.
AuthErrors == 1..NumAuthErrors

initialState ==
    [user |-> NoUser, isLoading |-> TRUE, isAuthenticated |-> FALSE, error |-> NoError]

\* The actions that carry no payload.
PlainActions == {"AUTH_START", "LOGOUT", "CLEAR_ERROR"}

\* case 'LOGOUT' with the user left as it is.
ReduceLogoutKeepingUser(state) ==
    [state EXCEPT !.isLoading = FALSE, !.isAuthenticated = FALSE, !.error = NoError]

\* case 'LOGOUT'
ReduceLogout(state) ==
    [state EXCEPT !.user = NoUser, !.isLoading = FALSE, !.isAuthenticated = FALSE,
                  !.error = NoError]

\* case 'AUTH_SUCCESS': the state itself for the user who is authenticated
\* already.
ReduceAuthSuccess(state, payload) ==
    IF state.isAuthenticated /\ state.user # NoUser /\ state.user.id = payload.id
    THEN state
    ELSE [state EXCEPT !.user = payload, !.isLoading = FALSE,
                       !.isAuthenticated = TRUE, !.error = NoError]

authReducer(state, action) ==
    CASE action.type = "AUTH_START" ->
            [state EXCEPT !.isLoading = TRUE, !.error = NoError]
      [] action.type = "AUTH_SUCCESS" -> ReduceAuthSuccess(state, action.payload)
      [] action.type = "AUTH_FAILURE" ->
            [state EXCEPT !.user = NoUser, !.isLoading = FALSE,
                          !.isAuthenticated = FALSE, !.error = action.payload]
      [] action.type = "LOGOUT" -> ReduceLogout(state)
      [] action.type = "UPDATE_USER" ->
            [state EXCEPT !.user = IF state.user # NoUser
                                   THEN Merge(state.user, action.payload)
                                   ELSE NoUser]
      [] action.type = "CLEAR_ERROR" -> [state EXCEPT !.error = NoError]
      [] OTHER -> state

\* dispatch(action)
Dispatch(action) ==
    /\ auth' = authReducer(auth, action)
    /\ lastAction' = action.type
    /\ UNCHANGED <<serverVars, service>>

NextAuth ==
    \/ \E t \in PlainActions : Dispatch([type |-> t])
    \/ \E u \in AuthUsers : Dispatch([type |-> "AUTH_SUCCESS", payload |-> u])
    \/ \E e \in {NoError} \cup AuthErrors :
          Dispatch([type |-> "AUTH_FAILURE", payload |-> e])
    \/ \E p \in PartialUsers : Dispatch([type |-> "UPDATE_USER", payload |-> p])

\* The browser as the page loads.
InitClient ==
    /\ service = NewService
    /\ auth = initialState
    /\ lastAction = "none"

Init ==
    /\ pool = {}
    /\ sessions = <<>>
    /\ sessionsCompleted = [u \in Users |-> 0]
    /\ sessionsCount = [t \in Topics |-> 0]
    /\ clock = 0
    /\ req = [s \in Slots |-> IdleReq]
    /\ issued = 0
    /\ faults = 0
    /\ matchedFrom = <<>>
    /\ InitSockets
    /\ InitClient

\* ----------------------------------------------------------- POST /join
\* WaitingPool.findOne({user, topic, isActive: true})
ExistingEntries(u, t) == {e \in pool : e.user = u /\ e.topic = t /\ e.isActive}

\* Session.findOne({$or: [{user1}, {user2}], status: {$in: ['waiting','active']}})
ActiveSessionsOf(u) ==
    {sid \in SessionIds : IsParticipant(sid, u)
                          /\ sessions[sid].status \in {"waiting", "active"}}

\* The same query without user: {$ne: userId}.
WaitingCandidatesAnyUser(u, t) == {e \in pool : e.topic = t /\ e.isActive}

\* WaitingPool.findOne({topic, user: {$ne: userId}, isActive: true}): the
\* documents that satisfy the query.  The query has no sort, so which of
\* them findOne returns is the store's choice.
WaitingCandidates(u, t) == {e \in pool : e.topic = t /\ e.user # u /\ e.isActive}

\* The request arrives with topicId t and socketId sk in its body (NoSocket:
\* the body has none); the topic is looked up.
JoinBeginFrom(s, u, t, sk) ==
    /\ CanBegin(s)
    /\ issued' = issued + 1
    /\ req' = [req EXCEPT ![s] =
                 IF TopicValid(t)
                 THEN [IdleReq EXCEPT !.kind = "join", !.user = u, !.topic = t,
                                      !.socketId = sk,
                                      !.pc = "j_existing",
                                      !.pre = [pool |-> pool, sessions |-> sessions]]
                 ELSE [IdleReq EXCEPT !.pc = "done", !.result = "not_found"]]
    /\ UNCHANGED <<pool, sessions, sessionsCompleted, sessionsCount, clock, faults,
                 matchedFrom,
                 sockVars,
                 clientVars>>

\* A join whose body has no socketId.
JoinBegin(s, u, t) == JoinBeginFrom(s, u, t, NoSocket)

\* Already in the waiting pool for this topic?
JoinCheckExisting(s) ==
    /\ req[s].pc = "j_existing"
    /\ req' = IF ExistingEntries(req[s].user, req[s].topic) # {}
              THEN Finish(s, "conflict_waiting")
              ELSE [req EXCEPT ![s].pc = "j_session"]
    /\ UNCHANGED <<pool, sessions, sessionsCompleted, sessionsCount, clock, issued,
                 faults, matchedFrom,
                 sockVars,
                 clientVars>>

\* The session test left out.
JoinCheckSessionSkipped(s) ==
    /\ req[s].pc = "j_session"
    /\ req' = [req EXCEPT ![s].pc = "j_find"]
    /\ UNCHANGED <<pool, sessions, sessionsCompleted, sessionsCount, clock, issued,
                 faults, matchedFrom,
                 sockVars,
                 clientVars>>

\* Already in a non-terminal session?
JoinCheckSession(s) ==
    /\ req[s].pc = "j_session"
    /\ req' = IF ActiveSessionsOf(req[s].user) # {}
              THEN Finish(s, "conflict_session")
              ELSE [req EXCEPT ![s].pc = "j_find"]
    /\ UNCHANGED <<pool, sessions, sessionsCompleted, sessionsCount, clock, issued,
                 faults, matchedFrom,
                 sockVars,
                 clientVars>>

\* Look for another user waiting for the same topic.
JoinFindWaiting(s) ==
    /\ req[s].pc = "j_find"
    /\ LET cands == WaitingCandidates(req[s].user, req[s].topic) IN
       IF cands = {}
       THEN req' = [req EXCEPT ![s].pc = "j_enqueue"]
       ELSE \E w \in cands :
               req' = [req EXCEPT ![s].pc = "j_save", ![s].waitingUser = w]
    /\ UNCHANGED <<pool, sessions, sessionsCompleted, sessionsCount, clock, issued,
                 faults, matchedFrom,
                 sockVars,
                 clientVars>>

\* await session.save()
JoinSaveSession(s) ==
    /\ req[s].pc = "j_save"
    /\ \E o \in Outcomes :
         IF o = "ok"
         THEN /\ sessions' = Append(sessions,
                     NewSession(req[s].topic, req[s].waitingUser.user, req[s].user))
              /\ matchedFrom' = Append(matchedFrom, req[s].waitingUser.id)
              /\ req' = [req EXCEPT ![s].pc = "j_delete", ![s].sid = Len(sessions) + 1]
              /\ UNCHANGED faults
         ELSE /\ req' = Finish(s, "server_error")
              /\ faults' = faults + 1
              /\ UNCHANGED <<sessions, matchedFrom>>
    /\ UNCHANGED <<pool, sessionsCompleted, sessionsCount, clock, issued,
                 sockVars,
                 clientVars>>

\* The collection after deleteOne({_id: id}), with the delete left out.
DeleteOneForgotten(p, id) == p

\* The collection p after deleteOne({_id: id}).
DeleteOne(p, id) == {e \in p : e.id # id}

\* await WaitingPool.deleteOne({_id: waitingUser._id})
JoinDeletePartner(s) ==
    /\ req[s].pc = "j_delete"
    /\ \E o \in Outcomes :
         IF o = "ok"
         THEN /\ pool' = DeleteOne(pool, req[s].waitingUser.id)
              /\ req' = [req EXCEPT ![s].pc = "j_respond"]
              /\ UNCHANGED faults
         ELSE /\ req' = Finish(s, "server_error")
              /\ faults' = faults + 1
              /\ UNCHANGED pool
    /\ UNCHANGED <<sessions, sessionsCompleted, sessionsCount, clock, issued,
                 matchedFrom,
                 sockVars,
                 clientVars>>

\* await session.populate(...); io.to(waitingUser.socketId).emit(
\* 'matchFound', {session, partner: req.user}) with the socketId of the
\* entry as findOne returned it; the response.
JoinRespondMatched(s) ==
    /\ req[s].pc = "j_respond"
    /\ inbox' = Deliver(inbox, IoToSocket(req[s].waitingUser.socketId),
                        Event("matchFound", req[s].user, UnknownRoom, req[s].sid,
                              NoSocket))
    /\ req' = Finish(s, "matched")
    /\ UNCHANGED <<pool, sessions, sessionsCompleted, sessionsCount, clock, issued,
                 faults, matchedFrom, socks, activeConnections, rooms, sockOps,
                 clientVars>>

\* The collection without its unique index: every insert is allowed.
UniqueIndexMissing(u, t) == TRUE

\* The unique index {user: 1, topic: 1} of the collection.
UniqueIndexAllows(u, t) == \A e \in pool : ~(e.user = u /\ e.topic = t)

\* req.body.socketId || 'temp-' + Date.now()
EntrySocketId(sk) == IF sk = NoSocket THEN TempSocket ELSE sk

\* No match: new WaitingPool({user, topic, socketId}); await waitingEntry.save()
JoinEnqueue(s) ==
    /\ req[s].pc = "j_enqueue"
    /\ \E o \in Outcomes :
         IF o = "ok"
         THEN IF UniqueIndexAllows(req[s].user, req[s].topic)
              THEN /\ clock' = clock + 1
                   /\ pool' = pool \cup
                        {WaitingEntry(clock + 1, req[s].user, req[s].topic, clock + 1,
                                      EntrySocketId(req[s].socketId))}
                   /\ req' = Finish(s, "enqueued")
                   /\ UNCHANGED faults
              ELSE /\ req' = Finish(s, "server_error")
                   /\ UNCHANGED <<pool, clock, faults>>
         ELSE /\ req' = Finish(s, "server_error")
              /\ faults' = faults + 1
              /\ UNCHANGED <<pool, clock>>
    /\ UNCHANGED <<sessions, sessionsCompleted, sessionsCount, issued, matchedFrom,
                 sockVars,
                 clientVars>>

\* ---------------------------------------------------------- POST /leave
\* The topicId of a request body that has none.
NoTopic == -1

LeaveInputs == TopicInputs \cup {NoTopic}

\* The query without its topic.
LeaveMatchesAnyTopic(u, t) == {e \in pool : e.user = u /\ e.isActive}

\* The query of deleteMany: {user, isActive: true} and, with a topicId, topic.
LeaveMatches(u, t) ==
    {e \in pool : e.user = u /\ e.isActive /\ (t # NoTopic => e.topic = t)}

\* await WaitingPool.deleteMany(query); the response carries
\* removedCount: result.deletedCount.
Leave(s, u, t) ==
    /\ CanBegin(s)
    /\ issued' = issued + 1
    /\ pool' = pool \ LeaveMatches(u, t)
    /\ req' = [req EXCEPT ![s] =
                 [IdleReq EXCEPT !.kind = "leave", !.user = u, !.topic = t,
                                 !.pc = "done", !.result = "left",
                                 !.removedCount = Cardinality(pool) - Cardinality(pool')]]
    /\ UNCHANGED <<sessions, sessionsCompleted, sessionsCount, clock, faults,
                 matchedFrom,
                 sockVars,
                 clientVars>>

\* --------------------------------------------------------- POST /cancel
\* Without a sessionId: deleteMany({user, isActive: true}); the response
\* is the message 'Removed from all waiting pools'.
CancelAll(s, u) ==
    /\ CanBegin(s)
    /\ issued' = issued + 1
    /\ pool' = {e \in pool : ~(e.user = u /\ e.isActive)}
    /\ req' = Finish(s, "removed_all")
    /\ UNCHANGED <<sessions, sessionsCompleted, sessionsCount, clock, faults,
                 matchedFrom,
                 sockVars,
                 clientVars>>

\* The tests without the one for a participant.
RejectionNoParticipantTest(u, sid) ==
    IF sid \notin SessionIds THEN "not_found"
    ELSE IF IsTerminal(sessions[sid].status) THEN "already_ended"
    ELSE "none"

\* The tests without the one for a session that has already ended.
RejectionNoEndedTest(u, sid) ==
    IF sid \notin SessionIds THEN "not_found"
    ELSE IF ~IsParticipant(sid, u) THEN "access_denied"
    ELSE "none"

\* The three tests both handlers make on the document findById returned:
\* not found, not a participant, already ended.
Rejection(u, sid) ==
    IF sid \notin SessionIds THEN "not_found"
    ELSE IF ~IsParticipant(sid, u) THEN "access_denied"
    ELSE IF IsTerminal(sessions[sid].status) THEN "already_ended"
    ELSE "none"

\* With a sessionId: Session.findById, the tests, and the assignments
\* session.status = 'cancelled'; session.endTime = new Date() on the
\* handler's copy of the document.
CancelBegin(s, u, sid) ==
    /\ CanBegin(s)
    /\ issued' = issued + 1
    /\ LET rej == Rejection(u, sid) IN
       req' = [req EXCEPT ![s] =
                 IF rej = "none"
                 THEN [IdleReq EXCEPT !.kind = "cancel", !.user = u, !.sid = sid,
                                      !.pc = "c_save", !.endTime = clock]
                 ELSE [IdleReq EXCEPT !.pc = "done", !.result = rej]]
    /\ UNCHANGED <<pool, sessions, sessionsCompleted, sessionsCount, clock, faults,
                 matchedFrom,
                 sockVars,
                 clientVars>>

\* await session.save(): writes the modified paths of the handler's copy,
\* whatever the stored document holds by now.  Then
\* io.to(session.roomId).emit('sessionCancelled', ...) and the response.
CancelSave(s) ==
    /\ req[s].pc = "c_save"
    /\ \E o \in Outcomes :
         IF o = "ok"
         THEN /\ sessions' = [sessions EXCEPT ![req[s].sid].status = "cancelled",
                                              ![req[s].sid].endTime = req[s].endTime]
              /\ inbox' = Deliver(inbox, IoTo(RoomOf(req[s].sid)),
                                  Event("sessionCancelled", req[s].user,
                                        RoomOf(req[s].sid), req[s].sid, NoSocket))
              /\ req' = Finish(s, "cancelled")
              /\ UNCHANGED faults
         ELSE /\ req' = Finish(s, "server_error")
              /\ faults' = faults + 1
              /\ UNCHANGED <<sessions, inbox>>
    /\ UNCHANGED <<pool, sessionsCompleted, sessionsCount, clock, issued, matchedFrom,
                 socks, activeConnections, rooms, sockOps,
                 clientVars>>

\* ------------------------------------------------ PATCH /sessions/:id/end
\* Session.findById, the tests, session.status = 'completed';
\* session.endTime = new Date().
EndBegin(s, u, sid) ==
    /\ CanBegin(s)
    /\ issued' = issued + 1
    /\ LET rej == Rejection(u, sid) IN
       req' = [req EXCEPT ![s] =
                 IF rej = "none"
                 THEN [IdleReq EXCEPT !.kind = "end", !.user = u, !.sid = sid,
                                      !.pc = "e_save", !.endTime = clock]
                 ELSE [IdleReq EXCEPT !.pc = "done", !.result = rej]]
    /\ UNCHANGED <<pool, sessions, sessionsCompleted, sessionsCount, clock, faults,
                 matchedFrom,
                 sockVars,
                 clientVars>>

\* The save of a handler that never assigned session.endTime.
EndSaveNoEndTime(s) ==
    /\ req[s].pc = "e_save"
    /\ sessions' = [sessions EXCEPT ![req[s].sid].status = "completed"]
    /\ req' = [req EXCEPT ![s].pc = "e_users"]
    /\ UNCHANGED <<pool, sessionsCompleted, sessionsCount, clock, issued, faults,
                 matchedFrom,
                 sockVars,
                 clientVars>>

\* await session.save()
EndSave(s) ==
    /\ req[s].pc = "e_save"
    /\ \E o \in Outcomes :
         IF o = "ok"
         THEN /\ sessions' = [sessions EXCEPT ![req[s].sid].status = "completed",
                                              ![req[s].sid].endTime = req[s].endTime]
              /\ req' = [req EXCEPT ![s].pc = "e_users"]
              /\ UNCHANGED faults
         ELSE /\ req' = Finish(s, "server_error")
              /\ faults' = faults + 1
              /\ UNCHANGED sessions
    /\ UNCHANGED <<pool, sessionsCompleted, sessionsCount, clock, issued, matchedFrom,
                 sockVars,
                 clientVars>>

\* await Promise.all of the two $inc of sessionsCompleted.
EndIncUsers(s) ==
    /\ req[s].pc = "e_users"
    /\ LET ses == sessions[req[s].sid] IN
       sessionsCompleted' =
         [u \in Users |-> sessionsCompleted[u]
                          + (IF u = ses.user1 THEN 1 ELSE 0)
                          + (IF u = ses.user2 THEN 1 ELSE 0)]
    /\ req' = [req EXCEPT ![s].pc = "e_topic"]
    /\ UNCHANGED <<pool, sessions, sessionsCount, clock, issued, faults, matchedFrom,
                 sockVars,
                 clientVars>>

\* await the $inc of the topic's sessionsCount; then
\* io.to(session.roomId).emit('sessionEnded', ...) and the response.
EndIncTopic(s) ==
    /\ req[s].pc = "e_topic"
    /\ sessionsCount' = [sessionsCount EXCEPT ![sessions[req[s].sid].topic] = @ + 1]
    /\ inbox' = Deliver(inbox, IoTo(RoomOf(req[s].sid)),
                        Event("sessionEnded", req[s].user, RoomOf(req[s].sid),
                              req[s].sid, NoSocket))
    /\ req' = Finish(s, "ended")
    /\ UNCHANGED <<pool, sessions, sessionsCompleted, clock, issued, faults, matchedFrom,
                 socks, activeConnections, rooms, sockOps,
                 clientVars>>

\* ------------------------------------------- POST /sessions/:id/feedback
\* body('rating').isInt({ min: 1, max: 5 })
MaxRating == 5
RatingValid(rt) == rt \in 1..MaxRating

\* body('comment').optional(): a comment or none.
CommentInputs == {NoComment, 1}

\* The participant's own paths of the feedback: user1's when isUser1,
\* else user2's.
OwnRating(ses, u) ==
    IF ses.user1 = u THEN ses.feedback.user1Rating ELSE ses.feedback.user2Rating
OtherRating(ses, u) ==
    IF ses.user1 = u THEN ses.feedback.user2Rating ELSE ses.feedback.user1Rating

\* if (session.feedback.user1Rating) / if (session.feedback.user2Rating)
FeedbackAlready(ses, u) == OwnRating(ses, u) # NoRating

\* The tests on the request and on the document findById returned:
\* validation, not found, not a participant, not completed, already
\* submitted.
FeedbackRejection(u, sid, rt) ==
    IF ~RatingValid(rt) THEN "validation_failed"
    ELSE IF sid \notin SessionIds THEN "not_found"
    ELSE IF ~IsParticipant(sid, u) THEN "access_denied"
    ELSE IF sessions[sid].status # "completed" THEN "not_completed"
    ELSE IF FeedbackAlready(sessions[sid], u) THEN "already_submitted"
    ELSE "none"

\* validationResult, Session.findById, the tests, and the assignments of
\* the rating and the comment on the handler's copy of the document.
FeedbackBegin(s, u, sid, rt, cm) ==
    /\ CanBegin(s)
    /\ issued' = issued + 1
    /\ LET rej == FeedbackRejection(u, sid, rt) IN
       req' = [req EXCEPT ![s] =
                 IF rej = "none"
                 THEN [IdleReq EXCEPT !.kind = "feedback", !.user = u, !.sid = sid,
                                      !.pc = "f_save", !.rating = rt, !.comment = cm,
                                      !.both = (OtherRating(sessions[sid], u) # NoRating)]
                 ELSE [IdleReq EXCEPT !.kind = "feedback", !.user = u, !.sid = sid,
                                      !.pc = "done", !.result = rej]]
    /\ UNCHANGED <<pool, sessions, sessionsCompleted, sessionsCount, clock, faults,
                 matchedFrom,
                 sockVars,
                 clientVars>>

\* The document with the participant's rating and comment written.
WithFeedback(ses, u, rt, cm) ==
    IF ses.user1 = u
    THEN [ses EXCEPT !.feedback.user1Rating = rt, !.feedback.user1Comment = cm]
    ELSE [ses EXCEPT !.feedback.user2Rating = rt, !.feedback.user2Comment = cm]

\* await session.save(): writes the two modified paths of the handler's
\* copy, whatever the stored document holds by now.  With one rating only
\* in the copy the response follows.
FeedbackSave(s) ==
    /\ req[s].pc = "f_save"
    /\ \E o \in Outcomes :
         IF o = "ok"
         THEN /\ sessions' = [sessions EXCEPT ![req[s].sid] =
                                 WithFeedback(@, req[s].user, req[s].rating,
                                              req[s].comment)]
              /\ req' = IF req[s].both
                        THEN [req EXCEPT ![s].pc = "f_topic"]
                        ELSE Finish(s, "feedback_submitted")
              /\ UNCHANGED faults
         ELSE /\ req' = Finish(s, "server_error")
              /\ faults' = faults + 1
              /\ UNCHANGED sessions
    /\ UNCHANGED <<pool, sessionsCompleted, sessionsCount, clock, issued, matchedFrom,
                 sockVars,
                 clientVars>>

\* With both ratings in the copy: Topic.findById and topic.save() of the
\* average rating (a path no other handler reads), then the response.
FeedbackTopic(s) ==
    /\ req[s].pc = "f_topic"
    /\ \E o \in Outcomes :
         IF o = "ok"
         THEN /\ req' = Finish(s, "feedback_submitted")
              /\ UNCHANGED faults
         ELSE /\ req' = Finish(s, "server_error")
              /\ faults' = faults + 1
    /\ UNCHANGED <<pool, sessions, sessionsCompleted, sessionsCount, clock, issued,
                 matchedFrom,
                 sockVars,
                 clientVars>>

\* ------------------------------------------------- socket: connection
\* A socket event can be received.
CanReceive == sockOps < MaxSockOps

\* A connected socket can send an event.
CanSend(h) == h \in Handles /\ socks[h].connected /\ CanReceive

\* io.on('connection'): a socket that passed the authentication middleware
\* as user u.  activeConnections.set(socket.userId, ...) replaces the entry
\* of u; the socket joins the personal room.  Nothing is done to an
\* earlier socket of u.
Connect(u) ==
    /\ CanReceive
    /\ Len(socks) < MaxSockets
    /\ sockOps' = sockOps + 1
    /\ socks' = Append(socks, NewSocket(u))
    /\ inbox' = Append(inbox, <<>>)
    /\ activeConnections' = [activeConnections EXCEPT ![u] = Len(socks) + 1]
    /\ rooms' = rooms \cup {<<Len(socks) + 1, UserRoom(u)>>}
    /\ UNCHANGED <<pool, sessions, sessionsCompleted, sessionsCount, clock, req,
                   issued, faults, matchedFrom,
                 clientVars>>

\* isUserOnline(userId): activeConnections.has(userId).
\* The ids a token can carry besides those of Users: of no user, and of a
\* user whose isActive is false.
UnknownUser == 0
InactiveUser == NumUsers + 1

\* socket.handshake.auth.token: absent, or present, then signed with
\* JWT_SECRET or not, and carrying the id of a user.
NoToken == [present |-> FALSE, signed |-> FALSE, id |-> UnknownUser]

Credentials ==
    {NoToken} \cup
    [present : {TRUE}, signed : BOOLEAN, id : Users \cup {UnknownUser, InactiveUser}]

\* User.findById(decoded.id) returns a document; its isActive.
UserExists(id) == id \in Users \cup {InactiveUser}
UserIsActive(id) == id \in Users

\* The middleware without its test of user.isActive.
AuthenticateNoActiveTest(c) ==
    IF ~c.present THEN "Authentication error: No token provided"
    ELSE IF ~c.signed THEN "Authentication error: Invalid token"
    ELSE IF ~UserExists(c.id) THEN "Authentication error: Invalid user"
    ELSE "none"

\* The middleware of io.use when User.findById does not reject: the error
\* it passes to next(), "none" when it passes none.
Authenticate(c) ==
    IF ~c.present THEN "Authentication error: No token provided"
    ELSE IF ~c.signed THEN "Authentication error: Invalid token"
    ELSE IF ~UserExists(c.id) \/ ~UserIsActive(c.id)
         THEN "Authentication error: Invalid user"
    ELSE "none"

\* A socket the middleware refused: it has no userId and was never
\* connected.
RefusedSocket == [NewSocket(UnknownUser) EXCEPT !.connected = FALSE]

\* next(new Error(msg)): the client gets the error, the connection handler
\* is not called.
Refuse(msg) ==
    /\ CanReceive
    /\ Len(socks) < MaxSockets
    /\ sockOps' = sockOps + 1
    /\ socks' = Append(socks, RefusedSocket)
    /\ inbox' = Append(inbox, <<ErrorEvent(msg, Len(socks) + 1)>>)
    /\ UNCHANGED <<pool, sessions, sessionsCompleted, sessionsCount, clock, req,
                   issued, matchedFrom, activeConnections, rooms,
                 clientVars>>

\* A client connects with credential c: the middleware, then the
\* connection handler when the middleware passed no error.  When
\* User.findById rejects, the catch passes 'Invalid token'.
ConnectWith(c) ==
    \/ /\ Authenticate(c) = "none"
       /\ Connect(c.id)
    \/ /\ Authenticate(c) # "none"
       /\ Refuse(Authenticate(c))
       /\ UNCHANGED faults
    \/ /\ c.present /\ c.signed
       /\ faults < MaxFaults
       /\ faults' = faults + 1
       /\ Refuse("Authentication error: Invalid token")

IsUserOnline(u) == activeConnections[u] # NoSocket

\* ------------------------------------------------ socket: joinSession
\* socket.on('joinSession'): the event arrives with the sessionId and the
\* roomId its sender chose; the handler awaits Session.findById(sessionId).
JoinSessionBegin(h, sid, r) ==
    /\ CanSend(h)
    /\ socks[h].join = NoJoin
    /\ sockOps' = sockOps + 1
    /\ socks' = [socks EXCEPT ![h].join = [sessionId |-> sid, roomId |-> r]]
    /\ UNCHANGED <<pool, sessions, sessionsCompleted, sessionsCount, clock, req,
                   issued, faults, matchedFrom, activeConnections, rooms, inbox,
                 clientVars>>

\* The tests without the one for a participant.
JoinSessionRejectionOpen(u, sid) ==
    IF sid \notin SessionIds THEN "Session not found" ELSE "none"

\* The two tests of the handler on the document findById returned.
JoinSessionRejection(u, sid) ==
    IF sid \notin SessionIds THEN "Session not found"
    ELSE IF ~IsParticipant(sid, u) THEN "Access denied to session"
    ELSE "none"

\* The rest of the handler: the tests, then socket.join(roomId), the
\* participantJoined emit to the room and sessionJoined to the socket.
\* socket.join and socket.to(...).emit do not ask whether the socket is
\* still connected.
JoinSessionFinish(h) ==
    /\ h \in Handles
    /\ socks[h].join # NoJoin
    /\ LET u == socks[h].user
           sid == socks[h].join.sessionId
           r == socks[h].join.roomId
           rej == JoinSessionRejection(u, sid)
       IN IF rej # "none"
          THEN /\ inbox' = Deliver(inbox, SocketSelf(h), ErrorEvent(rej, h))
               /\ UNCHANGED rooms
          ELSE /\ rooms' = rooms \cup {<<h, r>>}
               /\ inbox' = Deliver(Deliver(inbox, SocketTo(h, r),
                                           Event("participantJoined", u, r, 0, h)),
                                   SocketSelf(h), Event("sessionJoined", 0, r, sid, h))
    /\ socks' = [socks EXCEPT ![h].join = NoJoin]
    /\ UNCHANGED <<pool, sessions, sessionsCompleted, sessionsCount, clock, req,
                   issued, faults, matchedFrom, activeConnections, sockOps,
                 clientVars>>

\* The room `waiting_${topicId}`.
WaitingRoom(t) == 0 - (NumUsers + 1 + t)

\* The filter {user: socket.userId, topic: topicId, isActive: true}.
OwnEntries(u, t) == {e \in pool : e.user = u /\ e.topic = t /\ e.isActive}

\* findOneAndUpdate writing the socket id into every entry of the pool.
SetSocketIdOfAll(u, t, h) ==
    {{[e EXCEPT !.socketId = h] : e \in pool}}

\* findOneAndUpdate(filter, {socketId: socket.id}, {upsert: false}): the
\* pools it can leave.  One matching document is updated; with none the
\* collection stays as it is.
SetSocketId(u, t, h) ==
    IF OwnEntries(u, t) = {} THEN {pool}
    ELSE {(pool \ {e}) \cup {[e EXCEPT !.socketId = h]} : e \in OwnEntries(u, t)}

\* socket.on('joinWaitingPool'): the update, then socket.join of the
\* waiting room and waitingPoolJoined to the socket; when the update
\* rejects, the error event of the catch.
JoinWaitingPool(h, t) ==
    /\ CanSend(h)
    /\ sockOps' = sockOps + 1
    /\ \E o \in Outcomes :
         IF o = "ok"
         THEN /\ pool' \in SetSocketId(socks[h].user, t, h)
              /\ rooms' = rooms \cup {<<h, WaitingRoom(t)>>}
              /\ inbox' = Deliver(inbox, SocketSelf(h),
                                  Event("waitingPoolJoined", 0, WaitingRoom(t), t, h))
              /\ UNCHANGED faults
         ELSE /\ inbox' = Deliver(inbox, SocketSelf(h),
                                  ErrorEvent("Failed to join waiting pool", h))
              /\ faults' = faults + 1
              /\ UNCHANGED <<pool, rooms>>
    /\ UNCHANGED <<sessions, sessionsCompleted, sessionsCount, clock, req, issued,
                   matchedFrom, socks, activeConnections,
                 clientVars>>

\* findOneAndDelete(filter): the pools it can leave.
DeleteOwnEntry(u, t) ==
    IF OwnEntries(u, t) = {} THEN {pool}
    ELSE {pool \ {e} : e \in OwnEntries(u, t)}

\* socket.on('leaveWaitingPool'): the delete, then socket.leave of the
\* waiting room and waitingPoolLeft to the socket.
LeaveWaitingPool(h, t) ==
    /\ CanSend(h)
    /\ sockOps' = sockOps + 1
    /\ \E o \in Outcomes :
         IF o = "ok"
         THEN /\ pool' \in DeleteOwnEntry(socks[h].user, t)
              /\ rooms' = rooms \ {<<h, WaitingRoom(t)>>}
              /\ inbox' = Deliver(inbox, SocketSelf(h),
                                  Event("waitingPoolLeft", 0, WaitingRoom(t), t, h))
              /\ UNCHANGED faults
         ELSE /\ inbox' = Deliver(inbox, SocketSelf(h),
                                  ErrorEvent("Failed to leave waiting pool", h))
              /\ faults' = faults + 1
              /\ UNCHANGED <<pool, rooms>>
    /\ UNCHANGED <<sessions, sessionsCompleted, sessionsCount, clock, req, issued,
                   matchedFrom, socks, activeConnections,
                 clientVars>>

\* The handler without its socket.leave(roomId).
LeaveSessionKeeping(h, r) ==
    /\ CanSend(h)
    /\ sockOps' = sockOps + 1
    /\ inbox' = Deliver(inbox, SocketTo(h, r),
                        Event("participantLeft", socks[h].user, r, 0, h))
    /\ UNCHANGED <<pool, sessions, sessionsCompleted, sessionsCount, clock, req,
                   issued, faults, matchedFrom, socks, activeConnections, rooms,
                 clientVars>>

\* socket.on('leaveSession'): socket.leave(roomId), then participantLeft to
\* the room.  The handler makes no test.
LeaveSession(h, r) ==
    /\ CanSend(h)
    /\ sockOps' = sockOps + 1
    /\ rooms' = rooms \ {<<h, r>>}
    /\ inbox' = Deliver(inbox, SocketTo(h, r),
                        Event("participantLeft", socks[h].user, r, 0, h))
    /\ UNCHANGED <<pool, sessions, sessionsCompleted, sessionsCount, clock, req,
                   issued, faults, matchedFrom, socks, activeConnections,
                 clientVars>>

\* ------------------------------------------------------ socket: relay
\* The five events the handler passes on to a room.
RelayKinds == {"offer", "answer", "ice-candidate", "sessionMessage", "typing"}

\* The payload of a relayed event (offer, answer, candidate, message,
\* isTyping) is its sender's choice: the n-th event the server receives
\* carries payload n.
PayloadOf(n) == n

\* The relay with the emit to the room put before the events already sent.
RelayedFirst(box, h, r, k, n) ==
    [g \in DOMAIN box |->
        IF g \in SocketTo(h, r)
        THEN <<Event(k, socks[h].user, r, n, h)>> \o box[g]
        ELSE box[g]]

\* The inboxes after socket.to(roomId).emit(kind, {payload, from:
\* socket.userId}) by socket h.
Relayed(box, h, r, k, n) ==
    Deliver(box, SocketTo(h, r), Event(k, socks[h].user, r, n, h))

\* socket.on('offer' | 'answer' | 'ice-candidate' | 'sessionMessage' |
\* 'typing'): the handler emits to the room at once and makes no test.
Relay(h, r, k) ==
    /\ CanSend(h)
    /\ sockOps' = sockOps + 1
    /\ inbox' = Relayed(inbox, h, r, k, PayloadOf(sockOps + 1))
    /\ UNCHANGED <<pool, sessions, sessionsCompleted, sessionsCount, clock, req,
                   issued, faults, matchedFrom, socks, activeConnections, rooms,
                 clientVars>>

\* ------------------------------------------------- socket: disconnect
\* The registry after activeConnections.delete(socket.userId).
RegistryAfterDelete(h) == [activeConnections EXCEPT ![socks[h].user] = NoSocket]

\* The rooms of socket h, each with the other connected sockets in it.
RoomMates(h) ==
    UNION {{<<p[2], g>> : g \in IoTo(p[2]) \ {h}} : p \in {q \in rooms : q[1] = h}}

\* The transport of socket h closes.  The server takes the socket out of
\* all its rooms, then runs the 'disconnect' handler up to its first await:
\* activeConnections.delete(socket.userId).
\* The entries of identity u in the waiting pool.
EntriesOf(u) == {e \in pool : e.user = u}

Disconnect(h) ==
    /\ CanSend(h)
    /\ sockOps' = sockOps + 1
    /\ socks' = [socks EXCEPT ![h].connected = FALSE, ![h].dpc = "d_pool",
                              ![h].left = RoomMates(h),
                              ![h].waiting = {e.id : e \in EntriesOf(socks[h].user)},
                              ![h].wasIn = {p[2] : p \in {q \in rooms : q[1] = h}}]
    /\ rooms' = {p \in rooms : p[1] # h}
    /\ activeConnections' = RegistryAfterDelete(h)
    /\ UNCHANGED <<pool, sessions, sessionsCompleted, sessionsCount, clock, req,
                   issued, faults, matchedFrom, inbox,
                 clientVars>>

\* await User.findByIdAndUpdate(lastSeen); await WaitingPool.deleteMany(
\* {user: socket.userId, socketId: socket.id}).  When either rejects the
\* handler ends in its catch.
DisconnectPool(h) ==
    /\ h \in Handles
    /\ socks[h].dpc = "d_pool"
    /\ \E o \in Outcomes :
         IF o = "ok"
         THEN /\ pool' = {e \in pool : ~(e.user = socks[h].user /\ e.socketId = h)}
              /\ socks' = [socks EXCEPT ![h].dpc = "d_sessions"]
              /\ UNCHANGED faults
         ELSE /\ socks' = [socks EXCEPT ![h].dpc = "done"]
              /\ faults' = faults + 1
              /\ UNCHANGED pool
    /\ UNCHANGED <<sessions, sessionsCompleted, sessionsCount, clock, req, issued,
                   matchedFrom, activeConnections, rooms, inbox, sockOps,
                 clientVars>>

\* Session.find({$or: [{user1}, {user2}], status: 'active'})
ActiveSessions(u) ==
    {sid \in SessionIds : IsParticipant(sid, u) /\ sessions[sid].status = "active"}

\* for (const session of activeSessions)
\*     socket.to(session.roomId).emit('participantDisconnected', ...)
RECURSIVE NotifyDisconnected(_, _, _)
NotifyDisconnected(box, h, sids) ==
    IF sids = {} THEN box
    ELSE LET sid == CHOOSE i \in sids : \A j \in sids : i <= j
         IN NotifyDisconnected(
              Deliver(box, SocketTo(h, RoomOf(sid)),
                      Event("participantDisconnected", socks[h].user, RoomOf(sid), 0, h)),
              h, sids \ {sid})

\* A handler that also ends the sessions it notifies.
DisconnectNotifyEnding(h) ==
    /\ h \in Handles
    /\ socks[h].dpc = "d_sessions"
    /\ inbox' = NotifyDisconnected(inbox, h, ActiveSessions(socks[h].user))
    /\ sessions' = [i \in SessionIds |->
                      IF i \in ActiveSessions(socks[h].user)
                      THEN [sessions[i] EXCEPT !.status = "cancelled"]
                      ELSE sessions[i]]
    /\ socks' = [socks EXCEPT ![h].dpc = "done"]
    /\ UNCHANGED <<pool, sessionsCompleted, sessionsCount, clock, req,
                   issued, faults, matchedFrom, activeConnections, rooms, sockOps,
                 clientVars>>

\* await Session.find(...) and the loop of emits.
DisconnectNotify(h) ==
    /\ h \in Handles
    /\ socks[h].dpc = "d_sessions"
    /\ inbox' = NotifyDisconnected(inbox, h, ActiveSessions(socks[h].user))
    /\ socks' = [socks EXCEPT ![h].dpc = "done"]
    /\ UNCHANGED <<pool, sessions, sessionsCompleted, sessionsCount, clock, req,
                   issued, faults, matchedFrom, activeConnections, rooms, sockOps,
                 clientVars>>

\* ------------------------------------------------------- specification
SessionInputs == SessionIds \cup {UnknownSession}

Step(s) ==
    \/ \E u \in Users, t \in JoinTopicInputs : JoinBegin(s, u, t)
    \/ JoinCheckExisting(s)
    \/ JoinCheckSession(s)
    \/ JoinFindWaiting(s)
    \/ JoinSaveSession(s)
    \/ JoinDeletePartner(s)
    \/ JoinRespondMatched(s)
    \/ JoinEnqueue(s)
    \/ \E u \in Users, sid \in SessionInputs : CancelBegin(s, u, sid)
    \/ CancelSave(s)
    \/ \E u \in Users, sid \in SessionInputs : EndBegin(s, u, sid)
    \/ EndSave(s)
    \/ EndIncUsers(s)
    \/ EndIncTopic(s)
    \/ \E u \in Users, t \in LeaveInputs : Leave(s, u, t)
    \/ \E u \in Users : CancelAll(s, u)

Next == \E s \in Slots : Step(s)

Spec == Init /\ [][Next]_vars

\* The same handlers when requests arrive one after the other: a step is
\* taken only while no other request is in flight.
Quiet(s) == \A s2 \in Slots \ {s} : ~InFlight(s2)

NextSeq == \E s \in Slots : Quiet(s) /\ Step(s)

SpecSeq == Init /\ [][NextSeq]_vars

\* The socket layer.  The server process starts with an empty registry and
\* no socket, over collections that earlier requests have filled.  Two
\* such stores: after users 1 and 2 were matched on topic 1; and after
\* that session was ended by user 1, user 3 joined the pool and user 1
\* joined again and was matched with user 3.
StoreOneActive ==
    [pool |-> {}, sessions |-> <<NewSession(1, 1, 2)>>,
     sessionsCompleted |-> [u \in Users |-> 0],
     sessionsCount |-> [t \in Topics |-> 0],
     clock |-> 1, matchedFrom |-> <<1>>]

StoreEndedAndActive ==
    [pool |-> {},
     sessions |-> <<[NewSession(1, 1, 2) EXCEPT !.status = "completed", !.endTime = 1],
                    NewSession(1, 3, 1)>>,
     sessionsCompleted |-> [u \in Users |-> IF u \in {1, 2} THEN 1 ELSE 0],
     sessionsCount |-> [t \in Topics |-> IF t = 1 THEN 1 ELSE 0],
     clock |-> 2, matchedFrom |-> <<1, 2>>]

Stores == {StoreOneActive, StoreEndedAndActive}

\* The socketId in the body of a join: none, or any id, since the handler
\* stores req.body.socketId as it comes.  The client of this repository
\* sends the id of its own socket (frontend/src/app/page.tsx:
\* socketService.getSocket()?.id).
BodySocketIds == {NoSocket} \cup Handles

\* The requests that touch the waiting pool.
PoolStep(s) ==
    \/ \E u \in Users, t \in JoinTopicInputs :
          \E sk \in BodySocketIds : JoinBeginFrom(s, u, t, sk)
    \/ JoinCheckExisting(s)
    \/ JoinCheckSession(s)
    \/ JoinFindWaiting(s)
    \/ JoinSaveSession(s)
    \/ JoinDeletePartner(s)
    \/ JoinRespondMatched(s)
    \/ JoinEnqueue(s)
    \/ \E u \in Users, t \in LeaveInputs : Leave(s, u, t)
    \/ \E u \in Users : CancelAll(s, u)

\* Matching with the sockets: the pool requests one at a time, and the
\* socket events of the waiting pool, of connecting and of disconnecting,
\* MaxPoolReqs requests and MaxPoolSockOps socket events at most.
PoolReq == issued < MaxPoolReqs \/ \E s \in Slots : InFlight(s)

PoolSock == sockOps < MaxPoolSockOps

NextPool ==
    \/ \E c \in Credentials : PoolSock /\ ConnectWith(c)
    \/ \E h \in Handles, t \in TopicInputs : PoolSock /\ JoinWaitingPool(h, t)
    \/ \E h \in Handles, t \in TopicInputs : PoolSock /\ LeaveWaitingPool(h, t)
    \/ \E h \in Handles : PoolSock /\ Disconnect(h)
    \/ \E h \in Handles : DisconnectPool(h)
    \/ \E h \in Handles : DisconnectNotify(h)
    \/ \E s \in Slots : PoolReq /\ Quiet(s) /\ PoolStep(s)

SpecPool == Init /\ [][NextPool]_vars

InitSock ==
    /\ \E db \in Stores :
          /\ pool = db.pool
          /\ sessions = db.sessions
          /\ sessionsCompleted = db.sessionsCompleted
          /\ sessionsCount = db.sessionsCount
          /\ clock = db.clock
          /\ matchedFrom = db.matchedFrom
    /\ req = [s \in Slots |-> IdleReq]
    /\ issued = 0
    /\ faults = 0
    /\ InitSockets
    /\ InitClient

\* The roomId a socket event may name: the room of a session, or a room of
\* no session.
RoomInputs == {RoomOf(sid) : sid \in SessionIds} \cup {UnknownRoom}

\* The requests that change a session.
LifecycleStep(s) ==
    \/ \E u \in Users, sid \in SessionInputs : CancelBegin(s, u, sid)
    \/ CancelSave(s)
    \/ \E u \in Users, sid \in SessionInputs : EndBegin(s, u, sid)
    \/ EndSave(s)
    \/ EndIncUsers(s)
    \/ EndIncTopic(s)

\* The socket events and the steps of their handlers.
SockStep ==
    \/ \E u \in Users : Connect(u)
    \/ \E h \in Handles, sid \in SessionInputs, r \in RoomInputs :
          JoinSessionBegin(h, sid, r)
    \/ \E h \in Handles : JoinSessionFinish(h)
    \/ \E h \in Handles, r \in RoomInputs : LeaveSession(h, r)
    \/ \E h \in Handles, r \in RoomInputs, k \in RelayKinds : Relay(h, r, k)
    \/ \E h \in Handles : Disconnect(h)
    \/ \E h \in Handles : DisconnectPool(h)
    \/ \E h \in Handles : DisconnectNotify(h)

SpecSock == InitSock /\ [][SockStep]_vars

\* Connections that come and go beside the requests that change a
\* session, one such request in flight at a time.
NextLife ==
    \/ \E u \in Users : Connect(u)
    \/ \E h \in Handles : Disconnect(h)
    \/ \E h \in Handles : DisconnectPool(h)
    \/ \E h \in Handles : DisconnectNotify(h)
    \/ \E s \in Slots : Quiet(s) /\ LifecycleStep(s)

SpecLife == InitSock /\ [][NextLife]_vars

\* Ending and cancelling with the participants in the rooms: the requests
\* one at a time, and the socket events of connecting and of joining a
\* session's room, MaxRoomReqs requests and MaxRoomSockOps socket events at
\* most.
RoomReq == issued < MaxRoomReqs \/ \E s \in Slots : InFlight(s)

RoomSock == sockOps < MaxRoomSockOps

NextRoom ==
    \/ \E u \in Users : RoomSock /\ Connect(u)
    \/ \E h \in Handles, sid \in SessionInputs, r \in RoomInputs :
          RoomSock /\ JoinSessionBegin(h, sid, r)
    \/ \E h \in Handles : JoinSessionFinish(h)
    \/ \E s \in Slots : RoomReq /\ Quiet(s) /\ LifecycleStep(s)

SpecRoom == InitSock /\ [][NextRoom]_vars

\* The rating in the body of a request: the two ends of the valid range
\* and the integers next to them.
RatingInputs == {0, 1, MaxRating, MaxRating + 1}

\* The requests that give feedback on a session.
FeedbackStep(s) ==
    \/ \E u \in Users, sid \in SessionInputs :
          \E rt \in RatingInputs, cm \in CommentInputs :
             FeedbackBegin(s, u, sid, rt, cm)
    \/ FeedbackSave(s)
    \/ FeedbackTopic(s)

\* Feedback beside the requests that end or cancel a session, any of them
\* in flight together, MaxFeedbackReqs requests at most.
FeedbackReq == issued < MaxFeedbackReqs \/ \E s \in Slots : InFlight(s)

NextFeedback ==
    \/ \E s \in Slots : FeedbackReq /\ FeedbackStep(s)
    \/ \E s \in Slots : FeedbackReq /\ LifecycleStep(s)

SpecFeedback == InitSock /\ [][NextFeedback]_vars

\* The browser's socket service by itself, over a server that is idle.
SpecService == Init /\ [][NextService]_vars

\* The browser's auth reducer under any sequence of actions.
SpecAuth == Init /\ [][NextAuth]_vars

\* ------------------------------------------------------------ properties
\* The step in which the join request of slot s sends its response.
JoinFinishes(s) == req[s].kind = "join" /\ InFlight(s) /\ req'[s].pc = "done"

\* The active entries of collection p for topic t.
TopicEntries(p, t) == {e \in p : e.topic = t /\ e.isActive}

\* Identity u is a participant of a non-terminal session of ss.
InLiveSession(ss, u) ==
    \E i \in 1..Len(ss) : (ss[i].user1 = u \/ ss[i].user2 = u)
                          /\ ~IsTerminal(ss[i].status)

\* C1: no waiting entry is consumed by more than one match: no two sessions
\* are created from the same waiting entry, under any interleaving of joins.
C1_NoDoubleMatch ==
    \A i, j \in SessionIds : i # j => matchedFrom[i] # matchedFrom[j]

\* C2: requests arriving one after the other.  A join for topic T by an
\* identity in no live session, whose writes do not reject, (a) is answered
\* Enqueued when the pool holds no entry for T, and then the pool gains
\* exactly the requester's entry and no session is created; (b) is answered
\* Matched when the pool's only entry for T is another identity's (the
\* state (a) leaves for the next join), and then exactly one session is
\* created, active, on topic T, with participants {waiter, requester}, and
\* the waiter's entry is gone from the pool.
C2_JoinThenJoin ==
    [][\A s \in Slots :
         (JoinFinishes(s) /\ req'[s].result # "server_error"
            /\ ~InLiveSession(req[s].pre.sessions, req[s].user)) =>
         LET u == req[s].user
             t == req[s].topic
             pre == req[s].pre
             waiting == TopicEntries(pre.pool, t)
             n == Len(pre.sessions)
         IN /\ waiting = {} =>
                 /\ req'[s].result = "enqueued"
                 /\ sessions' = pre.sessions
                 /\ \E e \in pool' : /\ e.user = u /\ e.topic = t /\ e \notin pre.pool
                                     /\ pool' = pre.pool \cup {e}
            /\ \A w \in waiting : (waiting = {w} /\ w.user # u) =>
                 /\ req'[s].result = "matched"
                 /\ Len(sessions') = n + 1
                 /\ SubSeq(sessions', 1, n) = pre.sessions
                 /\ {sessions'[n + 1].user1, sessions'[n + 1].user2} = {w.user, u}
                 /\ sessions'[n + 1].topic = t
                 /\ sessions'[n + 1].status = "active"
                 /\ pool' = pre.pool \ {w}
      ]_vars

\* C2 witness: the second join has been answered Matched, the one session
\* pairs the two identities and the pool is empty again.
C2_Witness ==
    /\ \E s \in Slots : req[s].result = "matched"
    /\ Len(sessions) = 1
    /\ sessions[1].user1 # sessions[1].user2
    /\ sessions[1].status = "active"
    /\ pool = {}

\* C3: a match is all-or-nothing.  When a join that had found a partner
\* sends its response, whatever it is, the partner's entry is out of the
\* pool if and only if a session pairing the requester with that partner
\* was created from it.
C3_AllOrNothing ==
    [][\A s \in Slots :
         (JoinFinishes(s) /\ req[s].waitingUser # NoEntry) =>
         LET w == req[s].waitingUser IN
         (w \notin pool') <=>
            (\E i \in 1..Len(sessions') :
                /\ matchedFrom'[i] = w.id
                /\ {sessions'[i].user1, sessions'[i].user2} = {w.user, req[s].user})
      ]_vars

\* The two conflict responses of POST /join.
ConflictResults == {"conflict_waiting", "conflict_session"}

\* What C4 asks of the two tests of the handler: when the test for an entry
\* of the same topic, or the test for a non-terminal session, runs while the
\* requester has one, the join ends there with a conflict response and the
\* pool and the sessions are what they were.
ConflictTestsReject(s) ==
    /\ (req[s].pc = "j_existing" /\ req'[s] # req[s]
          /\ ExistingEntries(req[s].user, req[s].topic) # {}) =>
         (req'[s].pc = "done" /\ req'[s].result = "conflict_waiting"
            /\ pool' = pool /\ sessions' = sessions)
    /\ (req[s].pc = "j_session" /\ req'[s] # req[s]
          /\ InLiveSession(sessions, req[s].user)) =>
         (req'[s].pc = "done" /\ req'[s].result = "conflict_session"
            /\ pool' = pool /\ sessions' = sessions)

\* C4 as stated: a join by an identity that has an active entry for the
\* topic, or is in a non-terminal session, is rejected with a conflict
\* error and changes neither the pool nor the sessions: it is not answered
\* with any other response when it arrives, and the tests reject it.
C4_ConflictAlways ==
    [][\A s \in Slots :
         /\ \A u \in Users, t \in TopicInputs :
               (JoinBegin(s, u, t)
                  /\ (ExistingEntries(u, t) # {} \/ InLiveSession(sessions, u))) =>
               (req'[s].pc # "done" \/ req'[s].result \in ConflictResults)
         /\ ConflictTestsReject(s)
      ]_vars

\* C4 amended: the same for a join that names an existing, active topic.
C4_ConflictValidTopic ==
    [][\A s \in Slots :
         /\ \A u \in Users, t \in TopicInputs :
               (JoinBegin(s, u, t) /\ TopicValid(t)
                  /\ (ExistingEntries(u, t) # {} \/ InLiveSession(sessions, u))) =>
               (req'[s].pc # "done" \/ req'[s].result \in ConflictResults)
         /\ ConflictTestsReject(s)
      ]_vars

\* C4 witness: a join was answered with the session conflict while a
\* session of two identities is active and an identity waits in the pool.
C4_Witness ==
    /\ \E s \in Slots : req[s].result = "conflict_session"
    /\ \E i \in SessionIds : sessions[i].status = "active"

\* C5: the pool never holds two active entries of one identity for one
\* topic, also after concurrent joins of that identity for that topic.
C5_OneEntryPerPair ==
    \A e1, e2 \in pool :
        (e1.user = e2.user /\ e1.topic = e2.topic /\ e1.isActive /\ e2.isActive)
            => e1 = e2

\* C5 witness: a join that passed the test for an existing entry is about to
\* insert its entry while an entry of the same identity and topic, inserted
\* by a concurrent join, is in the pool.
C5_Witness ==
    \E s \in Slots : /\ req[s].pc = "j_enqueue"
                     /\ ExistingEntries(req[s].user, req[s].topic) # {}

\* C6: the partner a join picks is the oldest active entry of the topic
\* among those of other identities: none of them joined earlier.
C6_OldestFirst ==
    [][\A s \in Slots :
         (req[s].pc = "j_find" /\ req'[s].pc = "j_save") =>
         \A e \in WaitingCandidates(req[s].user, req[s].topic) :
             req'[s].waitingUser.joinedAt <= e.joinedAt
      ]_vars

\* C7: every session has two participants, both identities of the system,
\* and they differ: no identity is matched with itself.
C7_DistinctParticipants ==
    \A i \in SessionIds :
        /\ sessions[i].user1 \in Users
        /\ sessions[i].user2 \in Users
        /\ sessions[i].user1 # sessions[i].user2

\* C7 witness: a session exists, and a join is about to look for a partner
\* while its own identity has an entry for that topic in the pool.
C7_Witness ==
    /\ sessions # <<>>
    /\ \E s \in Slots : /\ req[s].pc = "j_find"
                        /\ ExistingEntries(req[s].user, req[s].topic) # {}

\* C8: once a session is completed or cancelled its status never changes.
C8_TerminalFinal ==
    [][\A i \in SessionIds :
         IsTerminal(sessions[i].status) => sessions'[i].status = sessions[i].status
      ]_vars

\* C9: an end or a cancel by a participant of a session that is already
\* completed or cancelled is answered "already ended" at once and changes
\* no session (status, end time), no counter and no pool entry.
C9_EndedIsRejected ==
    [][\A s \in Slots, u \in Users, sid \in SessionIds :
         ((EndBegin(s, u, sid) \/ CancelBegin(s, u, sid))
            /\ IsParticipant(sid, u) /\ IsTerminal(sessions[sid].status)) =>
         /\ req'[s].pc = "done"
         /\ req'[s].result = "already_ended"
         /\ UNCHANGED <<sessions, sessionsCompleted, sessionsCount, pool,
                 clientVars>>
      ]_vars

\* C9 witness: a request on a completed session was answered "already
\* ended" after the end that completed it had counted it.
C9_Witness ==
    /\ \E s \in Slots : req[s].result = "already_ended"
    /\ \E i \in SessionIds : /\ sessions[i].status = "completed"
                             /\ sessionsCount[sessions[i].topic] > 0

\* C10: (a) an end or cancel by a participant of an active session is
\* accepted; (b) the save of an end leaves the session completed, the save
\* of a cancel leaves it cancelled, both with an end time; (c) a session
\* leaves active only by such a save of one of its participants.
C10_ActiveTransitions ==
    [][/\ \A s \in Slots, u \in Users, sid \in SessionIds :
            (IsParticipant(sid, u) /\ sessions[sid].status = "active") =>
              /\ EndBegin(s, u, sid) => req'[s].pc = "e_save"
              /\ CancelBegin(s, u, sid) => req'[s].pc = "c_save"
       /\ \A s \in Slots :
            /\ (req[s].pc = "e_save" /\ req'[s].pc = "e_users") =>
                 /\ sessions'[req[s].sid].status = "completed"
                 /\ sessions'[req[s].sid].endTime # NoTime
            /\ (req[s].pc = "c_save" /\ req'[s].result = "cancelled") =>
                 /\ sessions'[req[s].sid].status = "cancelled"
                 /\ sessions'[req[s].sid].endTime # NoTime
       /\ \A i \in SessionIds :
            (sessions[i].status = "active" /\ sessions'[i].status # "active") =>
              \E s \in Slots :
                 /\ req[s].sid = i
                 /\ IsParticipant(i, req[s].user)
                 /\ \/ req[s].pc = "e_save" /\ sessions'[i].status = "completed"
                    \/ req[s].pc = "c_save" /\ sessions'[i].status = "cancelled"
      ]_vars

\* C10 witness: the end of the second participant (the requester of the
\* match) has just saved its session, now completed, with an end time.
C10_Witness ==
    \E s \in Slots, i \in SessionIds :
        /\ req[s].pc = "e_users"
        /\ req[s].sid = i
        /\ req[s].user = sessions[i].user2
        /\ sessions[i].status = "completed"
        /\ sessions[i].endTime # NoTime

\* ------------------------------------------------ properties: sockets
\* A step of the disconnect handler of socket h: the close of the
\* transport or one of the two continuations.
DisconnectStep(h) == h \in Handles /\ socks'[h].dpc # socks[h].dpc

Closes(h) == h \in Handles /\ socks[h].connected /\ ~socks'[h].connected

\* C12: unregistering removes the registry entry of the identity only if
\* the stored handle is the handle being disconnected: the close of a
\* socket that is not the one the registry holds for its identity leaves
\* the registry as it is, so an identity registered with a newer socket
\* stays registered with it and stays online.
C12_StaleDisconnectKeepsEntry ==
    [][\A h \in Handles :
         (Closes(h) /\ activeConnections[socks[h].user] # h) =>
            /\ activeConnections' = activeConnections
            /\ (IsUserOnline(socks[h].user) => IsUserOnline(socks[h].user)')
      ]_vars

\* Socket h1 was superseded: a later socket h2 was accepted for the same
\* identity.
Superseded(h1) ==
    \E h2 \in Handles : h1 < h2 /\ socks[h2].user = socks[h1].user

\* C13: the registry holds at most one socket per identity, and a new
\* connect supersedes and invalidates the previous one: the registry never
\* maps an identity to a superseded socket, and a superseded socket is in
\* no session room, so that it neither receives nor relays session events.
C13_NewConnectSupersedes ==
    \A h1 \in Handles :
        Superseded(h1) =>
            /\ activeConnections[socks[h1].user] # h1
            /\ \A r \in RoomInputs : <<h1, r>> \notin rooms

\* The handler of the joinSession of socket h ends in this step.
JoinSessionEnds(h) ==
    h \in Handles /\ socks[h].join # NoJoin /\ socks'[h].join = NoJoin

\* The events of sequence q.
EventsOf(q) == {q[i] : i \in 1..Len(q)}

\* C14: a joinSession by an identity that is not a participant of the named
\* session is answered with the error 'Access denied to session', one that
\* names an unknown session with 'Session not found'; in both cases the
\* socket is put into no room and no other socket is sent anything, so no
\* participantJoined is sent.  (The error reaches the socket if it is
\* still connected when the handler ends.)
C14_JoinSessionRejected ==
    [][\A h \in Handles :
         LET u == socks[h].user
             sid == socks[h].join.sessionId
             unknown == sid \notin SessionIds
             denied == sid \in SessionIds /\ ~IsParticipant(sid, u)
         IN (JoinSessionEnds(h) /\ (unknown \/ denied)) =>
              /\ rooms' = rooms
              /\ \A g \in Handles \ {h} : inbox'[g] = inbox[g]
              /\ inbox'[h] =
                   IF socks[h].connected
                   THEN Append(inbox[h],
                               ErrorEvent(IF denied THEN "Access denied to session"
                                                    ELSE "Session not found", h))
                   ELSE inbox[h]
      ]_vars

\* C14 witness: a socket of a non-participant of a session has been
\* answered 'Access denied to session' while a participant is joined to the
\* room of that session; the socket is not in the room and the participant
\* was sent no participantJoined.
C14_Witness ==
    \E h, g \in Handles, sid \in SessionIds :
        /\ ~IsParticipant(sid, socks[h].user)
        /\ ErrorEvent("Access denied to session", h) \in EventsOf(inbox[h])
        /\ <<h, RoomOf(sid)>> \notin rooms
        /\ IsParticipant(sid, socks[g].user)
        /\ socks[g].connected
        /\ <<g, RoomOf(sid)>> \in rooms
        /\ \A e \in EventsOf(inbox[g]) : e.kind # "participantJoined"

\* C15: room membership is scoped to one session: every socket in the room
\* of a session belongs to one of the two participants of that session,
\* whatever sessionId and roomId the joinSession events carried.
C15_RoomScopedToSession ==
    \A sid \in SessionIds : \A h \in InRoom(RoomOf(sid)) :
        IsParticipant(sid, socks[h].user)

\* Socket h is joined to room r, and r is the room of a session that has
\* the identity of h as a participant.
JoinedParticipant(h, r) ==
    /\ <<h, r>> \in rooms
    /\ \E sid \in SessionIds : r = RoomOf(sid) /\ IsParticipant(sid, socks[h].user)

\* C16: a relay event (offer, answer, ice-candidate, sessionMessage,
\* typing) or a leaveSession for room R, sent by a socket that is not
\* joined to R or whose identity is no participant of R's session, is
\* rejected: no socket in R is sent anything.
C16_RelayBoundary ==
    [][\A h \in Handles, r \in RoomInputs :
         ((LeaveSession(h, r) \/ \E k \in RelayKinds : Relay(h, r, k))
            /\ ~JoinedParticipant(h, r)) =>
         \A g \in InRoom(r) : inbox'[g] = inbox[g]
      ]_vars

\* C17: a relay event of kind k sent by socket h for room R is sent to
\* every other connected socket joined to R, so to the other participant
\* joined to R: as one more event, of kind k, naming the identity of h as
\* its sender, with the payload h sent; and it is not sent to h itself.
C17_RelayDelivers ==
    [][\A h \in Handles, r \in RoomInputs, k \in RelayKinds :
         Relay(h, r, k) =>
            /\ inbox'[h] = inbox[h]
            /\ \A g \in Handles \ {h} :
                 (socks[g].connected /\ <<g, r>> \in rooms) =>
                    /\ Len(inbox'[g]) = Len(inbox[g]) + 1
                    /\ SubSeq(inbox'[g], 1, Len(inbox[g])) = inbox[g]
                    /\ inbox'[g][Len(inbox'[g])].kind = k
                    /\ inbox'[g][Len(inbox'[g])].from = socks[h].user
                    /\ inbox'[g][Len(inbox'[g])].payload = PayloadOf(sockOps + 1)
      ]_vars

\* C17 witness: both participants of a session are joined to its room, and
\* the socket of one holds a relayed event that the socket of the other
\* sent for that room and that names the other's identity.
C17_Witness ==
    \E h, g \in Handles, sid \in SessionIds :
        /\ socks[h].user # socks[g].user
        /\ JoinedParticipant(h, RoomOf(sid))
        /\ JoinedParticipant(g, RoomOf(sid))
        /\ \E e \in EventsOf(inbox[g]) :
              /\ e.kind \in RelayKinds
              /\ e.sock = h
              /\ e.from = socks[h].user
              /\ e.room = RoomOf(sid)
        /\ \A e \in EventsOf(inbox[h]) : e.kind \notin RelayKinds

\* No socket of the other participant of session sid is joined to its room.
PeerAbsent(sid, u) ==
    \A g \in IoTo(RoomOf(sid)) : IsParticipant(sid, socks[g].user) => socks[g].user = u

\* C18: when a participant relays into the room of its session while its
\* peer is not joined, the sender is sent no error and no socket of another
\* identity is sent the event; and the event is not queued: a relayed
\* event reaches a socket only in the step in which it was sent, never
\* when a socket joins later.
C18_RelayWithoutPeer ==
    [][/\ \A h \in Handles, sid \in SessionIds, k \in RelayKinds :
            (Relay(h, RoomOf(sid), k) /\ JoinedParticipant(h, RoomOf(sid))
               /\ PeerAbsent(sid, socks[h].user)) =>
              /\ inbox'[h] = inbox[h]
              /\ \A g \in Handles :
                    socks[g].user # socks[h].user => inbox'[g] = inbox[g]
       /\ \A g \in Handles : \A i \in (Len(inbox[g]) + 1)..Len(inbox'[g]) :
            inbox'[g][i].kind \in RelayKinds =>
              /\ sockOps' = sockOps + 1
              /\ inbox'[g][i].payload = PayloadOf(sockOps')
      ]_vars

\* C19: the events one sender relays into one room reach a peer in the
\* order the sender issued them, whatever their kinds: of two relayed
\* events in the inbox of a socket that name the same sender and were sent
\* to the same room, the one issued first (the lower payload number) comes
\* first.
C19_RelayOrder ==
    \A g \in Handles : \A i, j \in 1..Len(inbox[g]) :
        (/\ i < j
         /\ inbox[g][i].kind \in RelayKinds
         /\ inbox[g][j].kind \in RelayKinds
         /\ inbox[g][i].from = inbox[g][j].from
         /\ inbox[g][i].room = inbox[g][j].room) =>
            inbox[g][i].payload < inbox[g][j].payload

\* C19 witness: a socket holds two relayed events of different kinds that
\* one sender sent to one room.
C19_Witness ==
    \E g \in Handles : \E i, j \in 1..Len(inbox[g]) :
        /\ i < j
        /\ inbox[g][i].kind \in RelayKinds
        /\ inbox[g][j].kind \in RelayKinds
        /\ inbox[g][i].kind # inbox[g][j].kind
        /\ inbox[g][i].from = inbox[g][j].from
        /\ inbox[g][i].room = inbox[g][j].room

\* The disconnect handler of socket h, its database calls done, reads the
\* active sessions, emits and ends in this step.
DisconnectEnds(h) ==
    h \in Handles /\ socks[h].dpc = "d_sessions" /\ socks'[h].dpc = "done"

\* Event e is the participantDisconnected that the handler of socket h
\* emitted to room r.
NamesDropped(e, h, r) ==
    /\ e.kind = "participantDisconnected"
    /\ e.from = socks[h].user
    /\ e.sock = h
    /\ e.room = r

\* C20: when a socket closes it is taken out of all its rooms, and for
\* every session room it was joined to, the other participant's socket
\* that was joined to the room then, and still is when the handler has
\* read the sessions, has been sent participantDisconnected naming the
\* dropped identity.
C20_EveryRoomNotified ==
    [][\A h \in Handles :
         /\ Closes(h) => \A p \in rooms' : p[1] # h
         /\ DisconnectEnds(h) =>
              \A sid \in SessionIds, g \in Handles :
                 (/\ <<RoomOf(sid), g>> \in socks[h].left
                  /\ g \in IoTo(RoomOf(sid))
                  /\ IsParticipant(sid, socks[h].user)
                  /\ IsParticipant(sid, socks[g].user)
                  /\ socks[g].user # socks[h].user) =>
                    \E e \in EventsOf(inbox'[g]) : NamesDropped(e, h, RoomOf(sid))
      ]_vars

\* C21: leaveSession by a connection joined to room R removes it from R,
\* every other connection joined to R receives a participantLeft event
\* naming the leaver, and an event relayed in R reaches no connection that
\* is not joined to R, the one that left included.
C21_LeaveSessionLeaves ==
    [][/\ \A h \in Handles, r \in RoomInputs :
             (LeaveSession(h, r) /\ <<h, r>> \in rooms) =>
                /\ <<h, r>> \notin rooms'
                /\ inbox'[h] = inbox[h]
                /\ \A g \in Handles \ {h} :
                     (socks[g].connected /\ <<g, r>> \in rooms) =>
                        /\ <<g, r>> \in rooms'
                        /\ inbox'[g] = Append(inbox[g],
                              Event("participantLeft", socks[h].user, r, 0, h))
       /\ \A g \in Handles, r \in RoomInputs, k \in RelayKinds :
             Relay(g, r, k) =>
                \A h \in Handles : <<h, r>> \notin rooms => inbox'[h] = inbox[h]
      ]_vars

\* A connection that joined a session's room and left it, while the other
\* participant, still joined, has the participantLeft event of that leave.
C21_Witness ==
    \E h, g \in Handles, sid \in SessionIds :
        /\ socks[h].user # socks[g].user
        /\ socks[h].connected
        /\ <<h, RoomOf(sid)>> \notin rooms
        /\ \E e \in EventsOf(inbox[h]) :
              e.kind = "sessionJoined" /\ e.room = RoomOf(sid)
        /\ JoinedParticipant(g, RoomOf(sid))
        /\ \E e \in EventsOf(inbox[g]) :
              /\ e.kind = "participantLeft"
              /\ e.sock = h
              /\ e.from = socks[h].user
              /\ e.room = RoomOf(sid)

\* ------------------------------------------------ waiting pool properties
LiveSocketsOf(u) == {h \in Handles : socks[h].user = u /\ socks[h].connected}

\* C22: whenever a join returns Matched, the waiting partner, if it has a
\* live connection at that moment, receives on one of its live connections
\* a matchFound notification naming the session and the requester as
\* partner.
C22_MatchNotifiesPartner ==
    [][\A s \in Slots :
         (req[s].pc = "j_respond" /\ req'[s].result = "matched") =>
            (LiveSocketsOf(req[s].waitingUser.user) # {} =>
               \E h \in LiveSocketsOf(req[s].waitingUser.user) :
                  /\ Len(inbox'[h]) = Len(inbox[h]) + 1
                  /\ inbox'[h][Len(inbox'[h])].kind = "matchFound"
                  /\ inbox'[h][Len(inbox'[h])].from = req[s].user
                  /\ inbox'[h][Len(inbox'[h])].payload = req[s].sid)
      ]_vars

\* C23: leaving the pool removes exactly the caller's matching entries:
\* with a topic given the caller's entries for that topic, with the topic
\* omitted, or by a cancel without a session id, all of the caller's
\* entries; the removedCount of a leave is the number of entries removed,
\* zero with the pool unchanged when nothing matches; the entries of the
\* other identities stay.
C23_LeaveRemovesExactly ==
    [][\A s \in Slots, u \in Users :
         /\ \A t \in LeaveInputs :
               Leave(s, u, t) =>
                  /\ pool' \subseteq pool
                  /\ \A e \in pool :
                        e \notin pool' <=>
                           (e.user = u /\ (t = NoTopic \/ e.topic = t))
                  /\ req'[s].removedCount = Cardinality(pool \ pool')
                  /\ (req'[s].removedCount = 0 <=> pool' = pool)
         /\ CancelAll(s, u) =>
               /\ pool' \subseteq pool
               /\ \A e \in pool : e \notin pool' <=> e.user = u
      ]_vars

\* A leave for one topic has answered that it removed one entry; the
\* caller's entry for the other topic and an entry of another identity are
\* in the pool.
C23_Witness ==
    \E s \in Slots :
        /\ req[s].result = "left"
        /\ req[s].topic \in Topics
        /\ req[s].removedCount = 1
        /\ \A e \in pool : ~(e.user = req[s].user /\ e.topic = req[s].topic)
        /\ \E e \in pool : e.user = req[s].user /\ e.topic # req[s].topic
        /\ \E e \in pool : e.user # req[s].user

\* C24: a joinWaitingPool whose update does not reject sets the socketId of
\* the caller's active entry for the topic to the id of the calling
\* connection and leaves every other entry as it was; when the caller has
\* no active entry for the topic the pool stays as it was, no entry is
\* created and no error is sent.
C24_JoinWaitingPoolUpdatesOwn ==
    [][\A h \in Handles, t \in TopicInputs :
         (JoinWaitingPool(h, t) /\ faults' = faults) =>
            LET own == {e \in pool : e.user = socks[h].user /\ e.topic = t /\ e.isActive}
            IN /\ Cardinality(pool') = Cardinality(pool)
               /\ \A e \in pool \ own : e \in pool'
               /\ \A e \in own :
                     \E e2 \in pool' :
                        /\ e2.socketId = h
                        /\ e2.id = e.id /\ e2.user = e.user /\ e2.topic = e.topic
                        /\ e2.joinedAt = e.joinedAt /\ e2.isActive = e.isActive
               /\ own = {} => pool' = pool
               /\ inbox'[h][Len(inbox'[h])].kind # "error"
      ]_vars

\* The entry of an identity carries the id of the identity's connection,
\* which has the waitingPoolJoined event for the entry's topic, beside an
\* entry that still carries a temporary id.
C24_Witness ==
    \E e \in pool, h \in Handles :
        /\ socks[h].user = e.user
        /\ e.socketId = h
        /\ \E ev \in EventsOf(inbox[h]) :
              ev.kind = "waitingPoolJoined" /\ ev.payload = e.topic
        /\ \E e2 \in pool : e2 # e /\ e2.socketId = TempSocket

\* C25: a join naming a topic that does not exist or is not active is
\* answered 'Topic not found' at once, its handler takes no further step,
\* and the waiting pool and the sessions are after the call as before it.
C25_UnknownTopicRejected ==
    [][\A s \in Slots, u \in Users, t \in JoinTopicInputs :
         (JoinBegin(s, u, t) /\ t \notin Topics) =>
            /\ req'[s].pc = "done"
            /\ req'[s].result = "not_found"
            /\ pool' = pool
            /\ sessions' = sessions
      ]_vars

\* With identities waiting and a session open, a join has been answered
\* 'Topic not found'.
C25_Witness ==
    /\ \E s \in Slots : req[s].result = "not_found"
    /\ pool # {}
    /\ sessions # <<>>

\* C26: a session is created only by the save of a match and begins
\* active: no session has status waiting, and a session whose status is
\* no longer active never has status active again.
C26_SessionsBeginActive ==
    [][/\ \A i \in 1..Len(sessions') : sessions'[i].status # "waiting"
       /\ Len(sessions') >= Len(sessions)
       /\ \A i \in SessionIds :
             sessions[i].status # "active" => sessions'[i].status # "active"
       /\ \A i \in (1..Len(sessions')) \ SessionIds :
             /\ sessions'[i].status = "active"
             /\ \E s \in Slots :
                   /\ req[s].pc = "j_save"
                   /\ req[s].waitingUser # NoEntry
                   /\ req'[s].sid = i
      ]_vars

\* One session has ended or been cancelled and a later match has created
\* another, which is active.
C26_Witness ==
    \E i, j \in SessionIds :
        /\ i < j
        /\ sessions[i].status \in {"completed", "cancelled"}
        /\ sessions[j].status = "active"

\* C27: when the disconnect handler of an identity's connection has run
\* its cleanup of the waiting pool and the identity has no live
\* connection, none of the entries the identity had in the pool when the
\* connection closed remains.
C27_DisconnectClearsEntries ==
    [][\A h \in Handles :
         (socks[h].dpc = "d_pool" /\ socks'[h].dpc = "d_sessions"
            /\ LiveSocketsOf(socks[h].user) = {}) =>
               \A e \in pool' : e.id \notin socks[h].waiting
      ]_vars

\* A socket the middleware refused.
Refused(h) == \E e \in EventsOf(inbox[h]) : e.kind = "error" /\ e.from = 0 /\
                 e.message \in {"Authentication error: No token provided",
                                "Authentication error: Invalid token",
                                "Authentication error: Invalid user"}

\* C28: a connect whose credential is missing, is not validly signed, or
\* names an unknown or inactive user is refused: the registry, the rooms,
\* the waiting pool and the sessions stay as they were, its socket is
\* never connected, and no handler ever acts for a refused socket.
C28_BadCredentialRefused ==
    [][/\ \A c \in Credentials :
             (ConnectWith(c) /\ (~c.present \/ ~c.signed \/ c.id \notin Users)) =>
                /\ activeConnections' = activeConnections
                /\ rooms' = rooms
                /\ pool' = pool
                /\ sessions' = sessions
                /\ Len(socks') = Len(socks) + 1
                /\ ~socks'[Len(socks')].connected
                /\ Len(inbox'[Len(socks')]) = 1
                /\ inbox'[Len(socks')][1].kind = "error"
       /\ \A h \in Handles :
             Refused(h) =>
                /\ socks'[h] = socks[h]
                /\ inbox'[h] = inbox[h]
                /\ \A p \in rooms' : p[1] # h
      ]_vars

\* A connect has been refused while an identity is connected and waits in
\* the pool.
C28_Witness ==
    \E h, g \in Handles :
        /\ Refused(h)
        /\ socks[g].connected
        /\ activeConnections[socks[g].user] = g
        /\ \E e \in pool : e.user = socks[g].user

\* C29: an end or a cancel of a session by an identity that is not one of
\* its participants is answered access denied, and one naming an unknown
\* session is answered not found; the request is then over, and the
\* sessions, the counters of the users and of the topics, and what every
\* socket has received are as before.
C29_ForeignEndRejected ==
    [][\A s \in Slots, u \in Users, sid \in SessionInputs :
         ((EndBegin(s, u, sid) \/ CancelBegin(s, u, sid))
            /\ (sid \notin SessionIds \/ ~IsParticipant(sid, u))) =>
               /\ req'[s].pc = "done"
               /\ req'[s].result =
                     IF sid \in SessionIds THEN "access_denied" ELSE "not_found"
               /\ sessions' = sessions
               /\ sessionsCompleted' = sessionsCompleted
               /\ sessionsCount' = sessionsCount
               /\ inbox' = inbox
      ]_vars

\* A request has been answered access denied while a participant is in
\* the room of an active session and has received neither sessionEnded nor
\* sessionCancelled.
C29_Witness ==
    /\ \E s \in Slots : req[s].result = "access_denied"
    /\ \E h \in Handles, sid \in SessionIds :
          /\ JoinedParticipant(h, RoomOf(sid))
          /\ socks[h].connected
          /\ sessions[sid].status = "active"
          /\ \A e \in EventsOf(inbox[h]) :
                e.kind \notin {"sessionEnded", "sessionCancelled"}

\* The sessions of identity u that are neither completed nor cancelled.
OpenSessionsOf(u) ==
    {i \in SessionIds : IsParticipant(i, u) /\ ~IsTerminal(sessions[i].status)}

\* C30: as long as no operation of the database has failed, no identity
\* is a participant of more than one session that is neither completed nor
\* cancelled, whatever the sequence of joins, those of an identity that
\* waits on several topics and is matched on one included.
C30_OneOpenSessionPerIdentity ==
    faults = 0 => \A u \in Users : Cardinality(OpenSessionsOf(u)) <= 1

\* ------------------------------------------------ matching, further properties
\* C31: when no request is in flight and no operation of the database has
\* failed, an identity that is a participant of a session neither
\* completed nor cancelled has no active entry in the waiting pool, on any
\* topic.
C31_MatchedLeaveEveryPool ==
    (faults = 0 /\ \A s \in Slots : ~InFlight(s)) =>
        \A u \in Users :
            OpenSessionsOf(u) # {} => \A e \in pool : ~(e.user = u /\ e.isActive)

\* The ids of the entries earlier matches were made from.
MatchedIds == {matchedFrom[i] : i \in 1..Len(matchedFrom)}

\* C32: a leave or a cancel that removed the entry of an identity for a
\* topic holds against a join that read the entry before: when a session
\* is saved, the identity it pairs the requester with still has an entry
\* for the topic in the pool, unless an earlier match was made from the
\* entry the join read.
C32_LeaveBeatsJoin ==
    [][\A s \in Slots :
         (req[s].pc = "j_save" /\ Len(sessions') = Len(sessions) + 1) =>
            \/ \E e \in pool : /\ e.user = req[s].waitingUser.user
                               /\ e.topic = req[s].topic
            \/ req[s].waitingUser.id \in MatchedIds
      ]_vars

\* The sessions of identity u, and of topic t, that have ended.
EndedSessionsOf(u) ==
    {i \in SessionIds : IsParticipant(i, u) /\ IsTerminal(sessions[i].status)}

EndedSessionsOn(t) ==
    {i \in SessionIds : sessions[i].topic = t /\ IsTerminal(sessions[i].status)}

\* C33: the completion of a session is counted at most once: the
\* sessionsCompleted of an identity never exceeds the number of its
\* sessions that have ended, nor the sessionsCount of a topic the number
\* of the topic's sessions that have ended, whatever the interleaving of
\* the end requests of the two participants.
C33_CompletionCountedOnce ==
    /\ \A u \in Users : sessionsCompleted[u] <= Cardinality(EndedSessionsOf(u))
    /\ \A t \in Topics : sessionsCount[t] <= Cardinality(EndedSessionsOn(t))

\* C34: a matchFound notification for a session reaches only connections
\* of the two participants of the session, whatever socketId the waiting
\* entry was created or updated with.
C34_MatchFoundOnlyToParticipants ==
    \A h \in Handles :
        \A e \in EventsOf(inbox[h]) :
            e.kind = "matchFound" => IsParticipant(e.payload, socks[h].user)

\* ------------------------------------------------ socket, further properties
\* C35: a participantDisconnected event is emitted to a room only when the
\* connection that closed was joined to the room at the time it closed.
C35_DisconnectedOnlyFromMembers ==
    \A g \in Handles :
        \A e \in EventsOf(inbox[g]) :
            e.kind = "participantDisconnected" => e.room \in socks[e.sock].wasIn

\* C36: feedback is accepted only from a participant of a completed
\* session whose own rating is not recorded yet, and a save of feedback
\* never changes a rating and comment that are already recorded, whichever
\* requests are in flight.
C36_FeedbackRecordedOnce ==
    [][\A s \in Slots :
         /\ (req[s].pc # "f_save" /\ req'[s].pc = "f_save") =>
               /\ IsParticipant(req'[s].sid, req'[s].user)
               /\ sessions[req'[s].sid].status = "completed"
               /\ OwnRating(sessions[req'[s].sid], req'[s].user) = NoRating
         /\ (req[s].pc = "f_save"
               /\ OwnRating(sessions[req[s].sid], req[s].user) # NoRating) =>
               sessions'[req[s].sid].feedback = sessions[req[s].sid].feedback
      ]_vars

\* C37: the socket service schedules a reconnect only in a step in which
\* the server disconnects one of its sockets, it has scheduled at most
\* maxReconnectAttempts reconnects since the last 'connect' event, every
\* 'connect' event sets reconnectAttempts to 0, and reconnectAttempts
\* stays between 0 and maxReconnectAttempts.
C37_ReconnectBounded ==
    [][/\ service'.reconnectAttempts \in 0..maxReconnectAttempts
       /\ service'.sinceConnect <= maxReconnectAttempts
       /\ service'.sinceConnect > service.sinceConnect =>
             \E k \in ClientSockets : /\ service.sockets[k] = "connected"
                                      /\ service'.sockets[k] = "disconnected"
       /\ (\E k \in ClientSockets : /\ service.sockets[k] = "connecting"
                                    /\ service'.sockets[k] = "connected") =>
             service'.reconnectAttempts = 0
      ]_vars

\* The service has counted maxReconnectAttempts reconnects and has let a
\* further disconnect by the server go by.
C37_Witness ==
    /\ service.reconnectAttempts = maxReconnectAttempts
    /\ service.gaveUp

\* C38: the auth state is authenticated exactly when it holds a user.
C38_AuthenticatedIffUser == auth.isAuthenticated <=> auth.user # NoUser

\* The profile of an authenticated user has been updated while a further
\* authentication was under way.
C38_Witness ==
    lastAction = "UPDATE_USER" /\ auth.isAuthenticated /\ auth.isLoading

\* C39: right after AUTH_SUCCESS, AUTH_FAILURE or LOGOUT the auth state is
\* not loading.
C39_LoadingEnds ==
    lastAction \in {"AUTH_SUCCESS", "AUTH_FAILURE", "LOGOUT"} => ~auth.isLoading

====
